---- MODULE Spec2Model ----
(***************************************************************************)
(* Self-update handover of FabioMayk510/TesteUpdate.                       *)
(*                                                                         *)
(*   src/AutoUpdate.py : the application side (AutoUpdate.update,          *)
(*                       AppUpdater, custom_install)                       *)
(*   src/updates.py    : the standalone Updater (updater.exe)              *)
(*   src/repo_init.py  : the publisher's repository tool                   *)
(*                                                                         *)
(* Two operating-system processes that share only the Updater's command    *)
(* line and the filesystem.  Time is counted in ticks of half a second,    *)
(* the polling interval of wait_process_end.                               *)
(***************************************************************************)
EXTENDS Integers, Sequences, FiniteSets, TLC

(***************************************************************************)
(* Bounds of the model and constants of the program                        *)
(***************************************************************************)
\* a sleep may last longer than asked: at most this many extra ticks
MaxOversleep == 1

\* ticks per second: time.sleep(0.5) in wait_process_end is one tick
TicksPerSecond == 2
\* wait_process_end(pid, timeout=10)
WAIT_TIMEOUT == 10
\* time.sleep(2) in main
STARTUP_SLEEP == 2

\* the Updater's exit statuses
EXIT_USAGE == 1
EXIT_NO_EXTRACT_DIR == 1
EXIT_APPLY_FAILED == 1
EXIT_SUCCESS == 0
\* an exception nobody catches (int(sys.argv[1])) ends the interpreter with 1
EXIT_UNCAUGHT == 1

\* the application's exit statuses
EXIT_HANDOVER == 0
EXIT_AFTER_PROMPT == 0

(***************************************************************************)
(* The filesystem                                                          *)
(***************************************************************************)
\* the two directories of the handover
InstallDir == "install"
ExtractDir == "extracted"
Paths == {InstallDir, ExtractDir}

\* names of top-level entries
UpdaterExe == "updater.exe"
Names == {UpdaterExe, "app"}
\* names of the files inside a top-level directory
SubNames == {"x", "y"} \cup Names

NoEntry == [kind |-> "none"]
File(c) == [kind |-> "file", data |-> c]
Dir(fs) == [kind |-> "dir", files |-> fs]

\* what the installed tree holds before the update, what a release holds
OldEntries(n) ==
    IF n = UpdaterExe THEN {NoEntry, File("old")}
    ELSE {NoEntry, File("old"), Dir({<<"x", "old">>, <<"y", "old">>})}
NewEntries(n) ==
    IF n = UpdaterExe THEN {NoEntry, File("new")}
    ELSE {NoEntry, File("new"), Dir({<<"x", "new">>})}
\* the trees an installation and a release can hold
OldTrees == {t \in [Names -> UNION {OldEntries(n) : n \in Names}] :
                \A n \in Names : t[n] \in OldEntries(n)}
NewTrees == {t \in [Names -> UNION {NewEntries(n) : n \in Names}] :
                \A n \in Names : t[n] \in NewEntries(n)}

NoDirectory == [exists |-> FALSE, entries |-> [n \in Names |-> NoEntry]]
Directory(es) == [exists |-> TRUE, entries |-> es]

\* Path.exists() of a top-level entry
Exists(e) == e.kind # "none"
\* Path.is_file()
IsFile(e) == e.kind = "file"
\* the names Path.iterdir() yields
IterDir(d) == {n \in Names : Exists(d.entries[n])}


(***************************************************************************)
(* updates.py: the operations of copy_update on one top-level entry        *)
(***************************************************************************)
\* what rmtree(..., ignore_errors=True) leaves of a directory entry that
\* holds a file the system refuses to delete: that file, here "x"
Undeleted(d) == Dir({f \in d.files : f[1] = "x"})

\* lines 39-43: remove the destination entry d if it exists; lk: the system
\* refuses to delete it (read-only, in use).  unlink raises on failure,
\* rmtree(ignore_errors=True) fails silently.
RemoveExisting(d, lk) ==
    IF ~Exists(d) THEN [entry |-> d, raised |-> FALSE]
    ELSE IF IsFile(d)
         THEN IF lk THEN [entry |-> d, raised |-> TRUE]
                    ELSE [entry |-> NoEntry, raised |-> FALSE]
         ELSE IF lk THEN [entry |-> Undeleted(d), raised |-> FALSE]
                    ELSE [entry |-> NoEntry, raised |-> FALSE]

\* shutil.copy2(item, dest_item), line 46: a destination that is a directory
\* receives the file under the source's base name; the copy can fail
Copy2(name, item, d) ==
    IF d.kind = "dir"
    THEN {[entry |-> Dir({f \in d.files : f[1] # name} \cup {<<name, item.data>>}),
           raised |-> FALSE],
          [entry |-> d, raised |-> TRUE]}
    ELSE {[entry |-> File(item.data), raised |-> FALSE],
          [entry |-> d, raised |-> TRUE]}

\* shutil.copytree(item, dest_item), line 48: raises FileExistsError when the
\* destination exists; a failure part-way leaves a partial tree
CopyTree(item, d) ==
    IF Exists(d)
    THEN {[entry |-> d, raised |-> TRUE]}
    ELSE {[entry |-> Dir(item.files), raised |-> FALSE]}
         \cup {[entry |-> Dir(l), raised |-> TRUE] : l \in (SUBSET item.files) \ {item.files}}

\* lines 45-48
Place(name, item, d) ==
    IF IsFile(item) THEN Copy2(name, item, d) ELSE CopyTree(item, d)

\* one iteration of the loop of copy_update (lines 36-48) on the entry `name`
\* of the directory src, against the directory dst (lk: dst's entry cannot be
\* deleted): the possible outcomes
\* [dir: the destination afterwards, raised: an exception left the loop]
\* variant: the loop body clears the rest of the destination
CopyItemPurging(src, dst, name, lk) ==
    LET x == RemoveExisting(dst.entries[name], lk)
    IN  IF ~dst.exists \/ x.raised THEN {[dir |-> dst, raised |-> TRUE]}
        ELSE {[dir |-> Directory([n \in Names |-> IF n = name THEN y.entry ELSE NoEntry]),
               raised |-> y.raised] : y \in Place(name, src.entries[name], x.entry)}

CopyItem(src, dst, name, lk) ==
    LET x == RemoveExisting(dst.entries[name], lk)
    IN  IF ~dst.exists \/ x.raised THEN {[dir |-> dst, raised |-> TRUE]}
        ELSE {[dir |-> Directory([dst.entries EXCEPT ![name] = y.entry]),
               raised |-> y.raised] : y \in Place(name, src.entries[name], x.entry)}

\* the name under which `locked` holds a directory itself
Self == "."

\* variant: the staged directory is left as it is
RmTreeSkipped(d, lks) == d

\* shutil.rmtree(extract_dir, ignore_errors=True), line 80: the directory
\* is gone unless it or some of its entries (lks) cannot be deleted; every
\* error is ignored
RmTreeQuiet(d, lks) ==
    IF ~d.exists \/ (IterDir(d) \cap lks = {} /\ Self \notin lks) THEN NoDirectory
    ELSE Directory([n \in Names |->
            IF n \in lks /\ Exists(d.entries[n])
            THEN (IF IsFile(d.entries[n]) THEN d.entries[n] ELSE Undeleted(d.entries[n]))
            ELSE NoEntry])

(***************************************************************************)
(* updates.py: processes and signals                                       *)
(***************************************************************************)
Platforms == {"Windows", "Posix"}
\* what the target process does with SIGTERM: Python's default ends the
\* process, a host application may install a handler
Dispositions == {"default", "handled"}

\* str(os.getpid()) of the application, and the text of a PID no process has
AppPidText == "4242"
StalePidText == "999"
\* int(sys.argv[1]), line 56: defined on decimal text only
IsDecimal(s) == s \in {AppPidText, StalePidText}

\* kill_process(pid), lines 11-18, on a target that is alive or not: the
\* values its liveness can have afterwards.  taskkill /F ends the process or
\* fails; SIGTERM ends it unless the process handles the signal; every error
\* is swallowed.
KillProcess(plat, disp, alive) ==
    IF ~alive THEN {FALSE}
    ELSE IF plat = "Windows" THEN {FALSE, TRUE}
    ELSE IF disp = "default" THEN {FALSE} ELSE {TRUE}

\* os.kill(pid, 0), line 25: does it raise OSError?  On POSIX exactly when no
\* such process exists.  On Windows signal 0 is CTRL_C_EVENT, which is no
\* liveness probe: either outcome is possible there.
PollRaises(plat, alive) ==
    IF plat = "Windows" THEN BOOLEAN ELSE {~alive}

\* the condition of the loop of wait_process_end, line 23
\* variant: the comparison turned round
WaitingInverted(t, t0) == t - t0 > WAIT_TIMEOUT * TicksPerSecond
Waiting(t, t0) == t - t0 < WAIT_TIMEOUT * TicksPerSecond

\* time.sleep(seconds): the clock values it can return at
AfterSleep(t, ticks) == {t + ticks + j : j \in 0..MaxOversleep}

(***************************************************************************)
(* AutoUpdate.py: custom_install                                           *)
(***************************************************************************)
\* the argument list of subprocess.Popen, lines 245-250
\* variant: the two directories in the other order
PopenArgsSwapped(dst_dir, src_dir) == <<UpdaterExe, AppPidText, src_dir, dst_dir>>
PopenArgs(dst_dir, src_dir) == <<UpdaterExe, AppPidText, dst_dir, src_dir>>

\* command lines a user can give the Updater by hand
CliArgvs ==
    {<<UpdaterExe>>, <<UpdaterExe, AppPidText, InstallDir>>,
     <<UpdaterExe, "abc", InstallDir, ExtractDir>>,
     <<UpdaterExe, AppPidText, InstallDir, ExtractDir>>,
     <<UpdaterExe, StalePidText, InstallDir, ExtractDir>>}

(***************************************************************************)
(* AutoUpdate.py: the metadata cache and the Trust Bootstrap               *)
(***************************************************************************)
\* the mutable metadata files, in the order lines 137 and 179 visit them
MutableFiles == <<"timestamp.json", "snapshot.json", "targets.json">>
MutableNames == {MutableFiles[i] : i \in DOMAIN MutableFiles}

\* a root file of the metadata directory holds nothing ("absent": there is no
\* file), zero bytes ("empty"), what was there before ("local"), the bundled
\* root ("bundled") or what the metadata origin sent ("remote")
\* what urlopen(url).read() does, line 166: it raises, or returns the bytes
FetchOutcomes == {"fail", "remote", "empty"}

\* the metadata directory: root.json, 1.root.json and the mutable files
Metadata(r, v, m) == [root |-> r, vroot |-> v, mutable |-> m]

\* lines 137-140 and 179-182: delete the mutable files that exist, in order;
\* stuck: the files whose unlink raises.  [mutable: what is left, raised]
\* variant: the files are left alone
RemoveMutableSkipped(mutable, stuck) == [mutable |-> mutable, raised |-> FALSE]
RemoveMutable(mutable, stuck) ==
    LET firstStuck == {i \in DOMAIN MutableFiles :
                          MutableFiles[i] \in mutable \cap stuck}
        stop == IF firstStuck = {} THEN Len(MutableFiles) + 1
                ELSE CHOOSE i \in firstStuck : \A j \in firstStuck : i <= j
    IN  [mutable |-> {MutableFiles[i] : i \in {j \in DOMAIN MutableFiles : j >= stop}}
                        \cap mutable,
         raised |-> firstStuck # {}]

\* line 145: both root files exist
\* variant: the test always fails
InitializedNever(m) == FALSE
Initialized(m) == m.root # "absent" /\ m.vroot # "absent"

\* does the outcome of urlopen leave _download_metadata_file by an exception
\* variant: the error is swallowed
FetchRaisesNever(outcome) == FALSE
FetchRaises(outcome) == outcome = "fail"

\* _download_metadata_file, lines 163-168, in the middle of a bootstrap b:
\* [meta, ops: the copies and fetches made, failed: a fetch failed, raised]
Download1(b, field, outcome) ==
    IF b.raised THEN b
    ELSE [meta   |-> IF outcome = "fail" THEN b.meta
                     ELSE [b.meta EXCEPT ![field] = outcome],
          ops    |-> b.ops \cup {<<"fetch", field>>},
          failed |-> b.failed \/ outcome = "fail",
          raised |-> FetchRaises(outcome)]

\* copy_bundled_root_if_available, lines 84-93, when a bundled root.json was
\* found: root.json is copied only where there is none, 1.root.json only
\* together with it
CopyBundled(b) ==
    IF b.meta.root # "absent" THEN b
    ELSE [b EXCEPT !.meta.root = "bundled",
                   !.meta.vroot = IF @ = "absent" THEN "bundled" ELSE @,
                   !.ops = @ \cup {<<"copy", "root">>}
                             \cup (IF b.meta.vroot = "absent"
                                   THEN {<<"copy", "vroot">>} ELSE {})]

\* _initialize_metadata, lines 129-161, on the metadata directory m.
\* hasBundle: a root.json ships with the application; stuck: the mutable files
\* that cannot be deleted; net: the outcome of each fetch
Bootstrap(m, hasBundle, stuck, net) ==
    LET c  == RemoveMutable(m.mutable, stuck)
        b0 == [meta |-> [m EXCEPT !.mutable = c.mutable], ops |-> {},
               failed |-> FALSE, raised |-> c.raised]
    IN  IF c.raised \/ Initialized(m) THEN b0
        ELSE IF hasBundle
        THEN LET b1 == CopyBundled(b0)
             IN  IF b1.meta.vroot = "absent" THEN Download1(b1, "vroot", net.vroot)
                 ELSE b1
        ELSE Download1(Download1(b0, "vroot", net.vroot), "root", net.root)

\* Client(...), lines 117-126: the external client loads root.json as its
\* trust anchor; can the constructor return
ClientLoads(m) == m.root \notin {"absent", "empty"}

\* check_for_updates, lines 186-203: what it returns for an outcome of the
\* client's check ("meta": a descriptor, "none", "error": an exception)
\* variant: the exception leaves the method
CheckReturnRaising(outcome) ==
    IF outcome = "meta" THEN "meta" ELSE IF outcome = "none" THEN "None" ELSE "raise"
CheckReturn(outcome) == IF outcome = "meta" THEN "meta" ELSE "None"

\* update(), lines 276-285: where it goes with what check_for_updates gave
\* variant: the test of new_version is missing
AfterCheckAlways(ret) == "download"
AfterCheck(ret) == IF ret = "meta" THEN "download" ELSE "returned"

\* download_and_apply_update, lines 207-227: True unless an exception came
\* out of the client or of the install callback
\* variant: the except branch returns True as well
DownloadReturnsTrue(raised) == TRUE
DownloadReturns(raised) == ~raised

\* target_base of AutoUpdate.__init__, line 260, and the versions a
\* repository can offer as the newest
TARGET_BASE == "https://github.com/fabiomayk510/TesteUpdate/releases/download"
Versions == {"1.1.0", "2.0.0"}

\* a location is the sequence of the pieces it was put together from.
\* f"v{latest_meta.version.base_version}/", line 189
VersionSegment(v) == <<"v", v, "/">>
\* line 189: self.client._target_base_url + f"v{...}/"
AdjustTargetBase(url, v) == url \o VersionSegment(v)

\* update(), lines 285-288: where it goes with that result
AfterDownload(ok) == IF ok THEN "prompt" ELSE "returned"

(***************************************************************************)
(* repo_init.py: the publishing tool                                       *)
(***************************************************************************)
\* the repository and the working directory of the tool.  configured: init
\* has written the configuration; exists: targets_dir exists; top: the
\* versions whose archive APP-V.tar.gz lies directly in targets_dir; tagged:
\* the <<tag, version>> whose archive lies in targets_dir/tag; bundles: the
\* versions with a temp_bundle_V directory; added: the versions an add or full
\* command has added with success; failed: a pack, add or full command has
\* failed; last: the path the last adicionar_versao took and what was added
\* before it
NoRepository ==
    [configured |-> FALSE, exists |-> FALSE, top |-> {}, tagged |-> {},
     bundles |-> {}, added |-> {}, failed |-> FALSE,
     last |-> [path |-> "none", prior |-> {}]]

\* tag = f"v{versao}", lines 394 and 408
TagOf(v) == <<"v", v>>

\* line 243: not repo.targets_dir.exists() or not any(glob("APP-*.tar.gz")):
\* the glob sees the archives that lie directly in targets_dir
NoPreviousVersion(p) == ~p.exists \/ p.top = {}

\* _pos_publicacao_ajustar_url, lines 151-183, after add_bundle has written
\* the archive of v: the file is moved into targets_dir/tag
MoveToTag(p, v, tag) ==
    IF tag = <<>> \/ v \notin p.top THEN p
    ELSE [p EXCEPT !.top = @ \ {v}, !.tagged = @ \cup {<<tag, v>>}]

\* where adicionar_versao or adicionar_primeira_versao can be left by an
\* exception, in the order of lines 240-260 and 197-213
\* (Repository.from_config, repo.add_bundle, shutil.move,
\* repo.publish_changes), or not at all
AddFailures == {"config", "add_bundle", "move", "publish", "none"}

\* adicionar_versao(versao, bundle_dir, tag_release), lines 230-275, with the
\* delegation to adicionar_primeira_versao, lines 187-227; fail: the call that
\* raises.  Both paths make the same calls but for skip_patch
AdicionarVersao(p, v, tag, fail) ==
    IF fail = "config" THEN [p EXCEPT !.failed = TRUE]
    ELSE LET path == IF NoPreviousVersion(p) THEN "first" ELSE "regular"
             p1   == [p EXCEPT !.last = [path |-> path, prior |-> p.added]]
             p2   == [p1 EXCEPT !.exists = TRUE, !.top = @ \cup {v}]
         IN  IF fail = "add_bundle" THEN [p1 EXCEPT !.failed = TRUE]
             ELSE IF fail = "move" THEN [p2 EXCEPT !.failed = TRUE]
             ELSE IF fail = "publish" THEN [MoveToTag(p2, v, tag) EXCEPT !.failed = TRUE]
             ELSE [MoveToTag(p2, v, tag) EXCEPT !.bundles = @ \ {v},
                                                !.added = @ \cup {v}]

(***************************************************************************)
(* State                                                                   *)
(***************************************************************************)
VARIABLES
    platform,     \* platform.system() of the machine
    sigterm,      \* what the application does with SIGTERM
    fs,           \* the directories InstallDir and ExtractDir
    locked,       \* the entries <<path, name>> the system refuses to delete
    appPc,        \* where the application is
    appExit,      \* how the application ended: [cause, status]
    updPc,        \* where the Updater is
    launchedBy,   \* who started the Updater: "cli" or "handover"
    argv,         \* sys.argv of the Updater (argv[1] is the program name)
    pid,          \* main: the text of sys.argv[1], parsed
    destino,      \* main: destino
    extract_dir,  \* main: extract_dir
    now,          \* time.time(), in ticks
    start,        \* wait_process_end: start
    polledGone,   \* wait_process_end returned from the except branch
    killedAt,     \* the call sites of kill_process that have run
    todo,         \* copy_update: the entries iterdir() has not yielded yet
    updExit,      \* how the Updater ended: [outcome, code]
    bundled,      \* a root.json ships with the application
    meta,         \* the metadata directory: [root, vroot, mutable]
    run,          \* what the current call of update() has done so far
    latest,       \* the newest version the repository offers
    target_base_url, \* client._target_base_url; <<>> while there is no client
    pub           \* the publisher's repository and working directory

vars == <<platform, sigterm, fs, locked, appPc, appExit, updPc, launchedBy, argv, pid,
          destino, extract_dir, now, start, polledGone, killedAt, todo, updExit,
          bundled, meta, run, latest, target_base_url, pub>>

env == <<platform, sigterm, locked, bundled, latest, pub>>
appVars == <<appPc, appExit>>
flow == <<meta, run, target_base_url>>
updLocals == <<launchedBy, argv, pid, destino, extract_dir, start, polledGone, killedAt, todo>>

NotExited == [cause |-> "none", status |-> <<>>]

\* update() has done nothing yet.  stale: the mutable files it found, until
\* the client's check writes its own; ops: the
\* copies and fetches of the bootstrap; fetchFailed: a fetch of the bootstrap
\* failed; client: the outcome of the client's check; ret: what
\* check_for_updates returned; dl: what download_and_apply_update returned;
\* install: how custom_install ended
NoRun == [stale |-> {}, ops |-> {}, fetchFailed |-> FALSE, client |-> "not_called",
          ret |-> "none", dl |-> <<>>, install |-> "none"]

\* the process the Updater's pid names is alive
AppAlive == appPc # "exited"
TargetAlive == pid = AppPidText /\ AppAlive

Init ==
    /\ platform \in Platforms
    /\ sigterm \in Dispositions
    /\ platform = "Windows" => sigterm = "default"
    /\ \E inst \in OldTrees, ext \in NewTrees, there \in BOOLEAN :
          fs = [p \in Paths |-> IF p = InstallDir THEN Directory(inst)
                                ELSE IF there THEN Directory(ext) ELSE NoDirectory]
    /\ locked \in SUBSET ((Paths \X Names) \cup {<<ExtractDir, Self>>})
    /\ \A n \in Names : <<InstallDir, n>> \in locked => Exists(fs[InstallDir].entries[n])
    /\ appPc = "running"
    /\ appExit = NotExited
    /\ updPc = "idle"
    /\ launchedBy = "none"
    /\ argv = <<>>
    /\ pid = ""
    /\ destino = ""
    /\ extract_dir = ""
    /\ now = 0
    /\ start = 0
    /\ polledGone = FALSE
    /\ killedAt = {}
    /\ todo = {}
    /\ updExit = [outcome |-> "none", code |-> <<>>]
    /\ bundled = TRUE
    /\ meta = Metadata("bundled", "bundled", {})
    /\ run = NoRun
    /\ latest = "1.1.0"
    /\ target_base_url = <<>>
    /\ pub = NoRepository

(***************************************************************************)
(* updates.py: main                                                        *)
(***************************************************************************)
\* sys.exit(code)
SysExit(outcome, code) ==
    /\ updPc' = "exited"
    /\ updExit' = [outcome |-> outcome, code |-> <<code>>]

\* the effect of kill_process(pid) on the application
\* variant: no signal is sent
KillSkipped(site) == UNCHANGED <<killedAt, appVars>>
Kill(site) ==
    /\ killedAt' = killedAt \cup {site}
    /\ \E alive \in KillProcess(platform, sigterm, TargetAlive) :
          IF TargetAlive /\ ~alive
          THEN /\ appPc' = "exited"
               /\ appExit' = [cause |-> "killed", status |-> <<>>]
          ELSE UNCHANGED appVars

\* a user starts the Updater by hand
UpdaterCli ==
    /\ updPc = "idle"
    /\ appPc = "running"
    /\ updPc' = "main"
    /\ launchedBy' = "cli"
    /\ argv' \in CliArgvs
    /\ UNCHANGED <<env, flow, fs, appVars, pid, destino, extract_dir, now,
                   start, polledGone, killedAt, todo, updExit>>

\* lines 52-58: the argument check and the parsing of the arguments
MainArgs ==
    /\ updPc = "main"
    /\ IF Len(argv) < 4
       THEN /\ SysExit("usage", EXIT_USAGE)
            /\ UNCHANGED <<pid, destino, extract_dir>>
       ELSE IF ~IsDecimal(argv[2])
       THEN /\ SysExit("uncaught", EXIT_UNCAUGHT)
            /\ UNCHANGED <<pid, destino, extract_dir>>
       ELSE /\ pid' = argv[2]
            /\ destino' = argv[3]
            /\ extract_dir' = argv[4]
            /\ updPc' = "sleep"
            /\ UNCHANGED updExit
    /\ UNCHANGED <<env, flow, fs, appVars, launchedBy, argv, now, start, polledGone,
                   killedAt, todo>>

\* lines 60-61
MainSleep ==
    /\ updPc = "sleep"
    /\ now' \in AfterSleep(now, STARTUP_SLEEP * TicksPerSecond)
    /\ updPc' = "kill"
    /\ UNCHANGED <<env, flow, fs, appVars, updLocals, updExit>>

\* line 64, and line 22 of wait_process_end
MainKill ==
    /\ updPc = "kill"
    /\ Kill("main")
    /\ start' = now
    /\ updPc' = "wait"
    /\ UNCHANGED <<env, flow, fs, launchedBy, argv, pid, destino, extract_dir, now,
                   polledGone, todo, updExit>>

\* lines 23-28: one iteration of the loop of wait_process_end
WaitPoll ==
    /\ updPc = "wait"
    /\ Waiting(now, start)
    /\ \E raises \in PollRaises(platform, TargetAlive) :
          IF raises
          THEN /\ polledGone' = TRUE
               /\ updPc' = "validate"
               /\ UNCHANGED now
          ELSE /\ now' \in AfterSleep(now, 1)
               /\ UNCHANGED <<polledGone, updPc>>
    /\ UNCHANGED <<env, flow, fs, appVars, launchedBy, argv, pid, destino, extract_dir,
                   start, killedAt, todo, updExit>>

\* lines 23 and 29: the loop ends on the timeout
WaitTimeout ==
    /\ updPc = "wait"
    /\ ~Waiting(now, start)
    /\ Kill("timeout")
    /\ updPc' = "validate"
    /\ UNCHANGED <<env, flow, fs, launchedBy, argv, pid, destino, extract_dir, now,
                   start, polledGone, todo, updExit>>

\* the test of line 68 on the directory extract_dir names
\* variant: the test is missing
ExtractDirMissingNever(d) == FALSE
ExtractDirMissing(d) == ~d.exists

\* lines 68-70, and the call of copy_update
Validate ==
    /\ updPc = "validate"
    /\ IF ExtractDirMissing(fs[extract_dir])
       THEN /\ SysExit("no_extract_dir", EXIT_NO_EXTRACT_DIR)
            /\ UNCHANGED todo
       ELSE /\ updPc' = "copy_update"
            /\ todo' = IterDir(fs[extract_dir])
            /\ UNCHANGED updExit
    /\ UNCHANGED <<env, flow, fs, appVars, launchedBy, argv, pid, destino, extract_dir,
                   now, start, polledGone, killedAt>>

\* the except branch of main, lines 75-77, on the filesystem f that
\* copy_update left: it prints and exits, and touches no file
\* variant: the branch removes the staged directory before it exits
ApplyFailedCleaning(f, staged) == [f EXCEPT ![staged] = NoDirectory]
ApplyFailed(f, staged) == f

\* lines 36-48 and 75-77: one entry of the staged directory
CopyStep ==
    /\ updPc = "copy_update"
    /\ \E name \in todo :
         \E r \in CopyItem(fs[extract_dir], fs[destino], name,
                            <<destino, name>> \in locked) :
            /\ fs' = IF r.raised
                     THEN ApplyFailed([fs EXCEPT ![destino] = r.dir], extract_dir)
                     ELSE [fs EXCEPT ![destino] = r.dir]
            /\ IF r.raised
               THEN /\ SysExit("apply_failed", EXIT_APPLY_FAILED)
                    /\ UNCHANGED todo
               ELSE /\ todo' = todo \ {name}
                    /\ UNCHANGED <<updPc, updExit>>
    /\ UNCHANGED <<env, flow, appVars, launchedBy, argv, pid, destino, extract_dir, now,
                   start, polledGone, killedAt>>

\* lines 80-83
Cleanup ==
    /\ updPc = "copy_update"
    /\ todo = {}
    /\ fs' = [fs EXCEPT ![extract_dir] =
                 RmTreeQuiet(@, {n \in Names \cup {Self} : <<extract_dir, n>> \in locked})]
    /\ SysExit("success", EXIT_SUCCESS)
    /\ UNCHANGED <<env, flow, appVars, updLocals, now>>

UpdaterNext ==
    \/ MainArgs
    \/ MainSleep
    \/ MainKill
    \/ WaitPoll
    \/ WaitTimeout
    \/ Validate
    \/ CopyStep
    \/ Cleanup

(***************************************************************************)
(* AutoUpdate.py: the application                                          *)
(***************************************************************************)
\* the process ends
AppEnds(cause, status) ==
    /\ appPc' = "exited"
    /\ appExit' = [cause |-> cause, status |-> status]

\* the host application calls AutoUpdate(), lines 255-274
CallUpdate ==
    /\ appPc \in {"running", "returned"}
    /\ updPc = "idle"
    /\ appPc' = "construct"
    /\ run' = [NoRun EXCEPT !.stale = meta.mutable]
    /\ target_base_url' = <<>>
    /\ UNCHANGED <<env, fs, meta, appExit, updPc, updLocals, now, updExit>>

\* AppUpdater.__init__, lines 100-126: ensure_dirs creates the extraction
\* directory, _initialize_metadata runs the bootstrap, Client(...) loads the
\* trust anchor; an exception of any of them is caught at line 292 of update()
Construct ==
    /\ appPc = "construct"
    /\ \/ /\ appPc' = "returned"
          /\ UNCHANGED <<fs, meta, run, target_base_url>>
       \/ /\ fs' = [fs EXCEPT ![ExtractDir] =
                       IF @.exists THEN @ ELSE Directory(NoDirectory.entries)]
          /\ \E stuck \in SUBSET MutableNames,
                net \in [root : FetchOutcomes, vroot : FetchOutcomes] :
               LET b == Bootstrap(meta, bundled, stuck, net)
               IN  /\ meta' = b.meta
                   /\ run' = [run EXCEPT !.ops = b.ops, !.fetchFailed = b.failed]
                   /\ IF b.raised \/ ~ClientLoads(b.meta)
                      THEN appPc' = "returned"
                      ELSE appPc' \in {"check", "returned"}
                   /\ target_base_url' = IF appPc' = "check" THEN <<TARGET_BASE>>
                                          ELSE target_base_url
    /\ UNCHANGED <<env, appExit, updPc, updLocals, now, updExit>>

\* check_for_updates, lines 174-184: the mutable files are deleted again; an
\* unlink that raises is caught at line 198 and None goes back to update()
CheckClean ==
    /\ appPc = "check"
    /\ \E stuck \in SUBSET MutableNames :
         LET c == RemoveMutable(meta.mutable, stuck)
             ret == CheckReturn("error")
         IN  /\ meta' = [meta EXCEPT !.mutable = c.mutable]
             /\ IF c.raised
                THEN /\ run' = [run EXCEPT !.ret = ret]
                     /\ appPc' = IF ret = "raise" THEN "returned" ELSE AfterCheck(ret)
                ELSE /\ appPc' = "client_check"
                     /\ UNCHANGED run
    /\ UNCHANGED <<env, fs, target_base_url, appExit, updPc, updLocals, now, updExit>>

\* check_for_updates, lines 186-203, and lines 276-284 of update(): the
\* client's check writes the metadata it fetched and tells a descriptor, none,
\* or raises
ClientCheck ==
    /\ appPc = "client_check"
    /\ \E outcome \in {"meta", "none", "error"} :
         LET ret == CheckReturn(outcome)
         IN  /\ run' = [run EXCEPT !.client = outcome, !.ret = ret, !.stale = {}]
             /\ appPc' = IF ret = "raise" THEN "returned" ELSE AfterCheck(ret)
             /\ \E written \in SUBSET MutableNames :
                  /\ outcome # "error" => written = MutableNames
                  /\ meta' = [meta EXCEPT !.mutable = written]
             /\ target_base_url' = IF outcome = "meta"
                                    THEN AdjustTargetBase(target_base_url, latest)
                                    ELSE target_base_url
    /\ UNCHANGED <<env, fs, appExit, updPc, updLocals, now, updExit>>

\* download_and_apply_update, lines 206-227: the client raises, returns
\* without calling the install callback, or extracts a release into the
\* extraction directory and calls custom_install
Download ==
    /\ appPc = "download"
    /\ \/ /\ \E raised \in BOOLEAN :
               LET ok == DownloadReturns(raised)
               IN  /\ run' = [run EXCEPT !.dl = <<ok>>]
                   /\ appPc' = AfterDownload(ok)
          /\ UNCHANGED fs
       \/ /\ \E release \in NewTrees :
               fs' = [fs EXCEPT ![ExtractDir] =
                        Directory([n \in Names |-> IF Exists(release[n]) THEN release[n]
                                                   ELSE @.entries[n]])]
          /\ appPc' = "install"
          /\ UNCHANGED run
    /\ UNCHANGED <<env, meta, target_base_url, appExit, updPc, updLocals, now, updExit>>

\* custom_install, lines 235-252: updater.exe is missing (line 243) or cannot
\* be started (Popen raises), and the exception is caught at line 222; or it
\* is started and sys.exit raises SystemExit
CustomInstall ==
    /\ appPc = "install"
    /\ \/ /\ \E how \in {"missing", "launch_failed"} :
               LET ok == DownloadReturns(TRUE)
               IN  /\ (how = "missing") = ~Exists(fs[InstallDir].entries[UpdaterExe])
                   /\ run' = [run EXCEPT !.install = how, !.dl = <<ok>>]
                   /\ appPc' = AfterDownload(ok)
          /\ UNCHANGED <<updPc, argv, launchedBy>>
       \/ /\ IsFile(fs[InstallDir].entries[UpdaterExe])
          /\ updPc = "idle"
          /\ updPc' = "main"
          /\ argv' = PopenArgs(InstallDir, ExtractDir)
          /\ launchedBy' = "handover"
          /\ run' = [run EXCEPT !.install = "launched"]
          /\ appPc' = "unwinding"
    /\ UNCHANGED <<env, fs, meta, target_base_url, appExit, pid, destino, extract_dir, now, start,
                   polledGone, killedAt, todo, updExit>>

\* SystemExit leaves download_and_apply_update (line 221) and update(), which
\* catches Exception only, and ends the process
Unwind ==
    /\ appPc = "unwinding"
    /\ AppEnds("handover", <<EXIT_HANDOVER>>)
    /\ UNCHANGED <<env, flow, fs, updPc, updLocals, now, updExit>>

\* lines 285-288: input() returns and sys.exit(0) ends the process, or
\* input() raises (EOFError, KeyboardInterrupt) and update() returns
Prompt ==
    /\ appPc = "prompt"
    /\ \/ AppEnds("prompt", <<EXIT_AFTER_PROMPT>>)
       \/ /\ appPc' = "returned"
          /\ UNCHANGED appExit
    /\ UNCHANGED <<env, flow, fs, updPc, updLocals, now, updExit>>

\* the host application ends on its own
HostQuit ==
    /\ appPc \in {"running", "returned"}
    /\ AppEnds("host", <<>>)
    /\ UNCHANGED <<env, flow, fs, updPc, updLocals, now, updExit>>

AppNext ==
    \/ CallUpdate
    \/ Construct
    \/ CheckClean
    \/ ClientCheck
    \/ Download
    \/ CustomInstall
    \/ Unwind
    \/ Prompt
    \/ HostQuit

Next ==
    \/ UpdaterCli
    \/ UpdaterNext
    \/ AppNext

Spec == Init /\ [][Next]_vars

\* the Updater is a running process: it takes its next step
FairSpec == Spec /\ WF_vars(UpdaterNext)

\* the update flow from every state of the metadata directory, with or
\* without a bundled root.json, on an installation with or without updater.exe
FlowInit ==
    /\ platform \in Platforms
    /\ sigterm \in Dispositions
    /\ platform = "Windows" => sigterm = "default"
    /\ \E shipped \in BOOLEAN :
          fs = [p \in Paths |->
                  IF p = InstallDir
                  THEN Directory([n \in Names |-> IF n = UpdaterExe /\ ~shipped
                                                   THEN NoEntry ELSE File("old")])
                  ELSE NoDirectory]
    /\ locked = {}
    /\ appPc = "running"
    /\ appExit = NotExited
    /\ updPc = "idle"
    /\ launchedBy = "none"
    /\ argv = <<>>
    /\ pid = ""
    /\ destino = ""
    /\ extract_dir = ""
    /\ now = 0
    /\ start = 0
    /\ polledGone = FALSE
    /\ killedAt = {}
    /\ todo = {}
    /\ updExit = [outcome |-> "none", code |-> <<>>]
    /\ bundled \in BOOLEAN
    /\ \E r \in {"absent", "empty", "local"}, v \in {"absent", "empty", "local"},
          m \in SUBSET MutableNames : meta = Metadata(r, v, m)
    /\ run = NoRun
    /\ latest \in Versions
    /\ target_base_url = <<>>
    /\ pub = NoRepository

FlowSpec == FlowInit /\ [][Next]_vars

\* how many times a caller asks the same AppUpdater for updates again
MaxRechecks == 2

\* a caller that holds the AppUpdater calls check_for_updates once more
\* after it returned a descriptor, lines 174-203
Recheck ==
    /\ appPc = "download"
    /\ Len(target_base_url) < Len(AdjustTargetBase(<<TARGET_BASE>>, latest))
                                 + MaxRechecks * Len(VersionSegment(latest))
    /\ appPc' = "check"
    /\ UNCHANGED <<env, flow, fs, appExit, updPc, updLocals, now, updExit>>

ApiNext ==
    \/ Next
    \/ Recheck

\* the update flow, and callers that use the methods of AppUpdater directly
ApiSpec == FlowInit /\ [][ApiNext]_vars

(***************************************************************************)
(* repo_init.py: main                                                      *)
(***************************************************************************)
\* everything but the publisher's repository
machine == <<platform, sigterm, fs, locked, appPc, appExit, updPc, launchedBy, argv,
             pid, destino, extract_dir, now, start, polledGone, killedAt, todo,
             updExit, bundled, meta, run, latest, target_base_url>>

\* command init, lines 373-374: criar_repositorio writes the configuration
\* and initializes the repository
InitCommand ==
    /\ pub' = [pub EXCEPT !.configured = TRUE, !.exists = TRUE]
    /\ UNCHANGED machine

\* command pack, lines 379-386: empacotar_app builds temp_bundle_V or
\* returns None
PackCommand ==
    /\ \E v \in Versions, packed \in BOOLEAN :
          pub' = IF packed THEN [pub EXCEPT !.bundles = @ \cup {v}]
                 ELSE [pub EXCEPT !.failed = TRUE]
    /\ UNCHANGED machine

\* commands add and full, lines 388-420: empacotar_app, then
\* adicionar_versao with tag_release = v<version>; without a configuration
\* Repository.from_config raises
AddCommand ==
    /\ \E v \in Versions, packed \in BOOLEAN, fail \in AddFailures :
          /\ ~pub.configured => fail = "config"
          /\ pub' = IF packed
                    THEN AdicionarVersao([pub EXCEPT !.bundles = @ \cup {v}],
                                         v, TagOf(v), fail)
                    ELSE [pub EXCEPT !.failed = TRUE]
    /\ UNCHANGED machine

RepoNext ==
    \/ InitCommand
    \/ PackCommand
    \/ AddCommand

\* the publisher's machine before the tool has run
RepoInit ==
    /\ pub = NoRepository
    /\ platform = "Posix"
    /\ sigterm = "default"
    /\ fs = [p \in Paths |-> NoDirectory]
    /\ locked = {}
    /\ appPc = "running"
    /\ appExit = NotExited
    /\ updPc = "idle"
    /\ launchedBy = "none"
    /\ argv = <<>>
    /\ pid = ""
    /\ destino = ""
    /\ extract_dir = ""
    /\ now = 0
    /\ start = 0
    /\ polledGone = FALSE
    /\ killedAt = {}
    /\ todo = {}
    /\ updExit = [outcome |-> "none", code |-> <<>>]
    /\ bundled = FALSE
    /\ meta = Metadata("absent", "absent", {})
    /\ run = NoRun
    /\ latest = "1.1.0"
    /\ target_base_url = <<>>

RepoSpec == RepoInit /\ [][RepoNext]_vars

(***************************************************************************)
(* Properties                                                              *)
(***************************************************************************)
TimeoutTicks == WAIT_TIMEOUT * TicksPerSecond
\* wait_process_end has returned
PastWait ==
    \/ updPc \in {"validate", "copy_update"}
    \/ updPc = "exited" /\ updExit.outcome \in {"no_extract_dir", "apply_failed", "success"}
\* what is left of the directory at path p cannot be deleted
OnlyUndeletableLeft(p) ==
    fs[p].exists =>
        /\ IterDir(fs[p]) # {} \/ <<p, Self>> \in locked
        /\ \A n \in IterDir(fs[p]) : <<p, n>> \in locked

\* C1: the Updater never runs copy_update while the process named by
\* targetPid is alive.
C1_NoApplyWhileTargetAlive ==
    updPc = "copy_update" => ~TargetAlive

C3_SignalOnlyAfterTimeout ==
    killedAt # {} =>
        /\ PastWait
        /\ ~polledGone
        /\ now - start >= TimeoutTicks

\* C4: the wait is bounded.  When the wait ends without a poll reporting the
\* target gone, kill_process has been called after the loop; that call is
\* followed by Validate whatever became of the target; and a started Updater
\* eventually exits.
C4_NeverWaitsForever ==
    /\ [](PastWait /\ ~polledGone => "timeout" \in killedAt)
    /\ []("timeout" \in killedAt => PastWait)
    /\ [](updPc # "idle" => <>(updPc = "exited"))

\* the Updater has exited after a timeout whose kill left the target alive
C4_Witness ==
    /\ updPc = "exited"
    /\ "timeout" \in killedAt
    /\ ~polledGone
    /\ TargetAlive

\* C5: once copy_update has returned, every top-level entry of the staged
\* directory is in the destination with the staged kind and content.
C5_StagedEntriesReplaceWhole ==
    (updPc = "copy_update" /\ todo = {}) =>
        \A n \in IterDir(fs[extract_dir]) :
            fs[destino].entries[n] = fs[extract_dir].entries[n]

\* C6: no step taken while copy_update runs changes a top-level entry of the
\* destination whose name is not the name of a staged entry, whether the
\* step ends the loop with an exception or not.
C6_ApplyFrame ==
    [][updPc = "copy_update" =>
          \A n \in Names \ IterDir(fs[extract_dir]) :
              fs'[destino].entries[n] = fs[destino].entries[n]]_vars

\* Apply failed part-way next to a destination entry that was not staged
C6_Witness ==
    /\ updPc = "exited"
    /\ updExit.outcome = "apply_failed"
    /\ \E n \in Names \ IterDir(fs[extract_dir]) : Exists(fs[destino].entries[n])

\* C7 as stated: after exit status 0 the staged directory does not exist.
C7_SuccessMeansStagedGone ==
    (updPc = "exited" /\ updExit.code = <<EXIT_SUCCESS>>) => ~fs[extract_dir].exists

\* C7 as amended: after exit status 0 the staged directory does not exist,
\* unless it or entries of it cannot be deleted, and then it holds nothing
\* else.
C7_SuccessMeansStagedRemoved ==
    (updPc = "exited" /\ updExit.code = <<EXIT_SUCCESS>>) =>
        OnlyUndeletableLeft(extract_dir)

\* exit status 0 after a staged directory with entries has been removed
C7_Witness ==
    /\ updPc = "exited"
    /\ updExit.code = <<EXIT_SUCCESS>>
    /\ ~fs[extract_dir].exists
    /\ IterDir(fs[destino]) # {}

\* C8: exit status 0 means success, and the statuses of the three failures
\* (usage, staged directory missing, Apply failed) are not 0 and differ from
\* one another.
C8_DistinctExitCodes ==
    updPc = "exited" =>
        /\ updExit.code = <<0>> <=> updExit.outcome = "success"
        /\ updExit.outcome = "usage" =>
              updExit.code \notin {<<EXIT_NO_EXTRACT_DIR>>, <<EXIT_APPLY_FAILED>>}
        /\ updExit.outcome = "no_extract_dir" =>
              updExit.code \notin {<<EXIT_USAGE>>, <<EXIT_APPLY_FAILED>>}
        /\ updExit.outcome = "apply_failed" =>
              updExit.code \notin {<<EXIT_USAGE>>, <<EXIT_NO_EXTRACT_DIR>>}

\* the positions of the Updater's arguments, as custom_install fills them
\* and as main reads them
HandoverBinding ==
    launchedBy = "handover" =>
        /\ argv = <<UpdaterExe, AppPidText, InstallDir, ExtractDir>>
        /\ updPc \notin {"idle", "main"} =>
              /\ pid = AppPidText
              /\ destino = InstallDir
              /\ extract_dir = ExtractDir
        /\ fs[InstallDir].exists

\* C9 as stated: the Updater started by custom_install gets (PID of the
\* application, install directory, staged directory), reads them in these
\* roles, and after its success the staged directory is deleted.
C9_HandoverThenStagedDeleted ==
    /\ HandoverBinding
    /\ (launchedBy = "handover" /\ updPc = "exited" /\ updExit.outcome = "success") =>
           ~fs[ExtractDir].exists

\* C9 as amended: the Updater is started while the application is alive, with
\* (PID of the application, install directory, staged directory), which main
\* reads in these roles; Apply never writes to the staged directory; and
\* after the Updater's success the staged directory is deleted as far as its
\* entries can be deleted.
C9_HandoverArguments ==
    /\ []HandoverBinding
    /\ [][(updPc = "idle" /\ updPc' = "main" /\ launchedBy' = "handover") =>
             (AppAlive /\ appPc' # "exited")]_vars
    /\ [][(launchedBy = "handover" /\ updPc = "copy_update" /\ updPc' # "exited") =>
             fs'[ExtractDir] = fs[ExtractDir]]_vars
    /\ []((launchedBy = "handover" /\ updPc = "exited" /\ updExit.outcome = "success") =>
             (OnlyUndeletableLeft(ExtractDir) /\ IterDir(fs[InstallDir]) # {}))

\* the application ended through the handover, the Updater it started saw it
\* gone, copied a staged entry into the install directory and deleted the
\* staged directory
C9_Witness ==
    /\ launchedBy = "handover"
    /\ appExit.cause = "handover"
    /\ polledGone
    /\ updPc = "exited"
    /\ updExit.outcome = "success"
    /\ ~fs[ExtractDir].exists
    /\ \E n \in Names : fs[InstallDir].entries[n].kind = "file"
                        /\ fs[InstallDir].entries[n].data = "new"

\* C10: once custom_install has started the Updater the application is
\* ending or has ended (it is never back in download_and_apply_update's
\* success branch or in update()), and the exit status of the handover is one
\* no other end of the process has, a normal exit 0 and the exit after the
\* restart prompt included.
C10_HandoverExitsDedicated ==
    /\ launchedBy = "handover" => appPc \in {"unwinding", "exited"}
    /\ (appPc = "exited" /\ appExit.cause = "handover") =>
          /\ appExit.status = <<EXIT_HANDOVER>>
          /\ appExit.status \notin {<<0>>, <<EXIT_AFTER_PROMPT>>}

\* C11: in every call of update() the process is ended by the flow itself
\* (the sys.exit of custom_install or the one after the restart prompt) only
\* if custom_install has started the Updater in that call.
C11_TerminatedOnlyAfterLaunch ==
    (appPc = "exited" /\ appExit.cause \in {"handover", "prompt"}) =>
        run.install = "launched"

\* C12: when check_for_updates is entered, and when the client's check is
\* about to be invoked, none of timestamp.json, snapshot.json, targets.json
\* exists in the metadata directory, whatever the bootstrap found there and
\* whatever the state of the root files was.
C12_NoMutableAtClientCheck ==
    appPc \in {"check", "client_check"} => meta.mutable = {}

\* the client's check about to be invoked in a call of update() that found
\* all three mutable files of an earlier run
C12_Witness ==
    /\ appPc = "client_check"
    /\ run.stale = MutableNames

\* C13: when the client's check is about to be invoked, root.json and
\* 1.root.json both exist in the metadata directory and neither is empty.
C13_RootsNonEmptyAtClientCheck ==
    appPc = "client_check" =>
        /\ meta.root \notin {"absent", "empty"}
        /\ meta.vroot \notin {"absent", "empty"}

\* root.json and 1.root.json both exist
BothRootsExist == meta.root # "absent" /\ meta.vroot # "absent"

\* C14: once root.json and 1.root.json both exist, a further run of the
\* bootstrap makes no copy and no fetch and leaves the contents of both files
\* as they were.
C14_BootstrapIdempotent ==
    [][(appPc = "construct" /\ BothRootsExist) =>
          /\ meta'.root = meta.root
          /\ meta'.vroot = meta.vroot
          /\ run'.ops = {}]_vars

\* an earlier call of update() fetched both root files; in this call the
\* bootstrap has run again, did nothing, and the files are what they were
C14_Witness ==
    /\ appPc = "check"
    /\ run.ops = {}
    /\ meta.root = "remote"
    /\ meta.vroot = "remote"

\* C15: from the moment the client's check has reported no newer version, no
\* step of that call of update() changes the install directory, no Updater
\* is started, no download is attempted and the flow does not end the
\* process (the host may end on its own).
C15_NoUpdateNoEffect ==
    [][run'.client = "none" =>
          /\ fs'[InstallDir] = fs[InstallDir]
          /\ updPc' = "idle"
          /\ launchedBy' = "none"
          /\ run'.dl = <<>>
          /\ run'.install = "none"
          /\ appExit'.cause \in {"none", "host"}]_vars

\* the client said there is nothing newer and update() has returned
C15_Witness ==
    /\ run.client = "none"
    /\ run.ret = "None"
    /\ appPc = "returned"

\* C16: check_for_updates never leaves by an exception; when the client's
\* check raised it has returned None, otherwise what the client produced (the
\* descriptor, or None for no update); and after an error of the client that
\* call of update() attempts no download and no handover.
C16_CheckNeverRaises ==
    /\ run.ret # "raise"
    /\ run.client = "meta" => run.ret = "meta"
    /\ run.client = "none" => run.ret = "None"
    /\ run.client = "error" =>
          /\ run.ret = "None"
          /\ run.dl = <<>>
          /\ run.install = "none"
          /\ updPc = "idle"
          /\ appPc \in {"returned", "exited"}

\* the client's check raised and update() has returned to the host
C16_Witness ==
    /\ run.client = "error"
    /\ run.ret = "None"
    /\ appPc = "returned"

\* C17: when a fetch of the bootstrap has failed, that call of update()
\* invokes neither the client's check nor the download nor the handover, the
\* flow does not end the process, and update() has returned to the host.
C17_FetchFailureStopsFlow ==
    run.fetchFailed =>
        /\ run.client = "not_called"
        /\ run.ret = "none"
        /\ run.dl = <<>>
        /\ run.install = "none"
        /\ updPc = "idle"
        /\ appPc \in {"returned", "exited"}
        /\ appExit.cause \in {"none", "host"}

\* without a bundled root the first fetch succeeded and the second failed:
\* update() has returned and the host runs on
C17_Witness ==
    /\ run.fetchFailed
    /\ <<"fetch", "root">> \in run.ops
    /\ appPc = "returned"
    /\ appExit = NotExited

\* C18: the termination kill_process sends cannot be caught or ignored by
\* the target on any platform: once kill_process has run, the target is
\* alive only where sending it can have failed (taskkill on Windows), never
\* because the target survived a termination that was delivered.
C18_TerminationForceful ==
    (killedAt # {} /\ TargetAlive) => platform = "Windows"

\* C19: when the Updater leaves Validate and the staged directory does not
\* exist, it exits with the non-zero status of that failure and the step
\* changes no file; no step taken between the reading of the arguments and
\* the end of Validate changes the destination directory, and nothing
\* changes after that exit (copy_update and the cleanup never run).
C19_MissingStagedDirIsFatal ==
    [][/\ (updPc = "validate" /\ updPc' # "validate" /\ ~fs[extract_dir].exists) =>
             /\ updPc' = "exited"
             /\ updExit' = [outcome |-> "no_extract_dir",
                            code |-> <<EXIT_NO_EXTRACT_DIR>>]
             /\ updExit'.code # <<0>>
             /\ fs' = fs
       /\ updPc \in {"sleep", "kill", "wait", "validate"} =>
             fs'[destino] = fs[destino]
       /\ (updPc = "exited" /\ updExit.outcome = "no_extract_dir") =>
             (fs' = fs /\ updPc' = "exited")]_vars

\* the Updater was started on an installation that has entries and a staged
\* directory that does not exist, and has exited from Validate
C19_Witness ==
    /\ updPc = "exited"
    /\ updExit.outcome = "no_extract_dir"
    /\ ~fs[extract_dir].exists
    /\ IterDir(fs[destino]) # {}

\* C20: when custom_install found no updater.exe in the install directory, or
\* could not start it, no Updater runs, download_and_apply_update has
\* returned False, the flow has not ended the process and update() has
\* returned to the host.
C20_FailedHandoverReturns ==
    run.install \in {"missing", "launch_failed"} =>
        /\ run.dl = <<FALSE>>
        /\ updPc = "idle"
        /\ launchedBy = "none"
        /\ appPc \in {"returned", "exited"}
        /\ appExit.cause \in {"none", "host"}

\* a release was extracted, updater.exe is not in the install directory, and
\* update() has returned
C20_Witness ==
    /\ run.install = "missing"
    /\ ~Exists(fs[InstallDir].entries[UpdaterExe])
    /\ IterDir(fs[ExtractDir]) # {}
    /\ appPc = "returned"
    /\ appExit = NotExited

\* C21: whenever a download can start (check_for_updates has returned a
\* descriptor of the newest version), the client's target base location is
\* the configured target base followed by exactly one segment for that
\* version, however often check_for_updates was called on the AppUpdater.
C21_OneVersionSegment ==
    appPc = "download" =>
        target_base_url = <<TARGET_BASE>> \o VersionSegment(latest)

\* C22: a run of the bootstrap that starts with root.json present neither
\* copies nor fetches root.json and leaves its content as it was, with or
\* without a bundled root.json.
C22_RootNeverOverwritten ==
    [][(appPc = "construct" /\ meta.root # "absent") =>
          /\ meta'.root = meta.root
          /\ <<"fetch", "root">> \notin run'.ops
          /\ <<"copy", "root">> \notin run'.ops]_vars

\* C23: the step of copy_update that fails ends the Updater with the
\* non-zero status of a failed Apply, leaves the staged directory and all of
\* its entries as they were and changes no entry of the destination but the
\* one it was copying; and after that exit nothing changes any more (no
\* cleanup, no rollback).
C23_ApplyFailureKeepsAll ==
    [][/\ (updPc = "copy_update" /\ updPc' = "exited"
              /\ updExit'.outcome = "apply_failed") =>
             /\ updExit'.code = <<EXIT_APPLY_FAILED>>
             /\ updExit'.code # <<0>>
             /\ fs'[extract_dir] = fs[extract_dir]
             /\ fs'[extract_dir].exists
             /\ \E name \in todo : \A n \in Names \ {name} :
                    fs'[destino].entries[n] = fs[destino].entries[n]
       /\ (updPc = "exited" /\ updExit.outcome = "apply_failed") =>
             (fs' = fs /\ updPc' = "exited")]_vars

\* Apply failed on the second staged entry: the first is in the destination
\* with its new content and both are still staged
C23_Witness ==
    /\ updPc = "exited"
    /\ updExit.outcome = "apply_failed"
    /\ fs[extract_dir].exists
    /\ IterDir(fs[extract_dir]) = Names
    /\ \E n \in Names \ todo :
          /\ fs[destino].entries[n] = fs[extract_dir].entries[n]
          /\ fs[destino].entries[n] = File("new")

\* C24: adicionar_versao takes the path of the initial version
\* (adicionar_primeira_versao, skip_patch) only when no version was added
\* before: while every add and full command so far has succeeded, the last
\* call took that path only if nothing had been added before it.
C24_FirstPathOnlyFirst ==
    (pub.last.path = "first" /\ ~pub.failed) => pub.last.prior = {}
====
